---- MODULE Spec2Model ----
(***************************************************************************)
(* Legal-document search service (backend/app.py): the corpus loaded at    *)
(* import time and the /generate request pipeline (tokenizer, sentence     *)
(* splitter, relevance scorer, snippet selector, summary composer).        *)
(*                                                                         *)
(* Text is a sequence of one-character strings, so that tokenization,      *)
(* sentence splitting and stripping are computed character by character.   *)
(* A score is the exact fraction [num, den] of the float counts/len that   *)
(* the code computes; for the token counts that occur here distinct        *)
(* fractions are distinct floats, so comparing fractions is comparing the  *)
(* floats.  The decimal rendering round(score, 4) and the wall-clock       *)
(* took_ms of a response are not modelled.                                 *)
(***************************************************************************)
EXTENDS Integers, Sequences, FiniteSets, TLC

VARIABLE DOCS           \* the corpus, in dict insertion order: <<[doc_id, title, text]>>
VARIABLE DOC_SENTENCES  \* <<[doc_id, sentences]>>, in the insertion order of DOCS
VARIABLE request        \* the query of the /generate request being served, as sent
VARIABLE response       \* what generate returned or raised for it; status "none": no request
VARIABLE locals         \* generate's locals when it returned: query_tokens, scored, collected
VARIABLE steps          \* the stages of generate that the request went through
VARIABLE first          \* the response that the query Watched got the first time it was sent

vars == <<DOCS, DOC_SENTENCES, request, response, locals, steps, first>>

----------------------------------------------------------------------------
(* Bounds of the model *)

MaxFiles == 2        \* files in a directory drawn from the whole catalogue
MaxManyFiles == 12   \* files in a directory of query-matching documents
MaxQueryWords == 3   \* words in a generated query

(* Program constants *)

MIN_SUMMARY_SENTENCES == 2
MAX_SNIPPETS_PER_DOC == 3
MAX_RESULTS == 10

----------------------------------------------------------------------------
(* Characters *)

UpperChars ==
  <<"A", "B", "C", "D", "E", "F", "G", "H", "I", "J", "K", "L", "M",
    "N", "O", "P", "Q", "R", "S", "T", "U", "V", "W", "X", "Y", "Z">>
LowerChars ==
  <<"a", "b", "c", "d", "e", "f", "g", "h", "i", "j", "k", "l", "m",
    "n", "o", "p", "q", "r", "s", "t", "u", "v", "w", "x", "y", "z">>
Upper == {UpperChars[i] : i \in 1..26}
Lower == {LowerChars[i] : i \in 1..26}
Digit == {"0", "1", "2", "3", "4", "5", "6", "7", "8", "9"}
Whitespace == {" ", "\n", "\t"}
SentenceEnd == {".", "!", "?"}

LowerOf == [c \in Upper |-> LowerChars[CHOOSE i \in 1..26 : UpperChars[i] = c]]
UpperOf == [c \in Lower |-> UpperChars[CHOOSE i \in 1..26 : LowerChars[i] = c]]
ToLower(c) == IF c \in Upper THEN LowerOf[c] ELSE c
ToUpper(c) == IF c \in Lower THEN UpperOf[c] ELSE c

\* a list comprehension [f(i) for i in ...], every element computed once
List(f) == SubSeq(f, 1, Len(f))

\* str.lower()
lower(text) == List([i \in 1..Len(text) |-> ToLower(text[i])])

\* str.strip(): drop leading and trailing whitespace
strip(text) ==
  LET keep == {i \in 1..Len(text) : text[i] \notin Whitespace}
  IN  IF keep = {} THEN <<>>
      ELSE LET lo == CHOOSE i \in keep : \A j \in keep : i <= j
               hi == CHOOSE i \in keep : \A j \in keep : j <= i
           IN  SubSeq(text, lo, hi)

\* sep.join(parts)
RECURSIVE join(_, _)
join(sep, parts) ==
  IF parts = <<>> THEN <<>>
  ELSE IF Len(parts) = 1 THEN parts[1]
  ELSE parts[1] \o sep \o join(sep, Tail(parts))

\* str.title() after replacing "_" and "-" by " "
title(stem) ==
  LET s == [i \in 1..Len(stem) |-> IF stem[i] \in {"_", "-"} THEN " " ELSE stem[i]]
      cased(c) == c \in Upper \cup Lower
  IN  [i \in 1..Len(s) |->
         IF i > 1 /\ cased(s[i-1]) THEN ToLower(s[i]) ELSE ToUpper(s[i])]

----------------------------------------------------------------------------
(* re.findall(r"[a-zA-Z0-9]+", text.lower()) *)

\* [a-zA-Z0-9] and what str.lower() makes of a letter
Alnum == Lower \cup Upper \cup Digit

\* the tokens that start in lo..hi of text, in order: a token is a maximal run
\* of characters that are in [a-zA-Z0-9] once lower-cased
RECURSIVE TokensIn(_, _, _)
TokensIn(text, lo, hi) ==
  IF lo > hi THEN <<>>
  ELSE IF lo = hi
    THEN IF ToLower(text[lo]) \in Alnum /\ (lo = 1 \/ ToLower(text[lo - 1]) \notin Alnum)
           THEN LET end == CHOOSE j \in lo..Len(text) :
                             /\ \A k \in lo..j : ToLower(text[k]) \in Alnum
                             /\ (j = Len(text) \/ ToLower(text[j + 1]) \notin Alnum)
                IN  <<lower(SubSeq(text, lo, end))>>
           ELSE <<>>
    ELSE LET mid == (lo + hi) \div 2
         IN  TokensIn(text, lo, mid) \o TokensIn(text, mid + 1, hi)

Tokens(text) == TokensIn(text, 1, Len(text))

----------------------------------------------------------------------------
(* _sentence_split: re.split(r"(?<=[.!?])\s+(?=[A-Z0-9])", text.strip()),   *)
(* each part stripped, empty parts dropped                                  *)

\* the pieces re.split cuts t into, from position p on
RECURSIVE SplitFrom(_, _)
SplitFrom(t, p) ==
  LET n == Len(t)
      \* last position of the whitespace run that starts at i
      runEnd(i) == CHOOSE j \in i..n :
                     /\ \A k \in i..j : t[k] \in Whitespace
                     /\ (j = n \/ t[j + 1] \notin Whitespace)
      \* the pattern matches at i: after . ! or ?, a whitespace run, then A-Z or 0-9
      matchAt(i) == /\ i > 1
                    /\ t[i - 1] \in SentenceEnd
                    /\ t[i] \in Whitespace
                    /\ runEnd(i) < n
                    /\ t[runEnd(i) + 1] \in Upper \cup Digit
      later == {i \in p..n : matchAt(i)}
  IN  IF later = {} THEN <<SubSeq(t, p, n)>>
      ELSE LET m == CHOOSE i \in later : \A j \in later : i <= j
           IN  <<SubSeq(t, p, m - 1)>> \o SplitFrom(t, runEnd(m) + 1)

_sentence_split(text) ==
  LET parts == SplitFrom(strip(text), 1)
  IN  SelectSeq([i \in 1..Len(parts) |-> strip(parts[i])], LAMBDA p : p # <<>>)

----------------------------------------------------------------------------
(* The embedded fallback documents of _load_docs *)

doc1Title == <<"C", "i", "v", "i", "l", " ", "L", "i", "a", "b", "i", "l", "i", "t", "y", " ", "B", "a", "s", "i", "c", "s">>

doc1Text ==
  <<
    "T", "o", "r", "t", " ", "l", "a", "w", " ", "a", "d", "d", "r", "e", "s", "s",
    "e", "s", " ", "c", "i", "v", "i", "l", " ", "w", "r", "o", "n", "g", "s", " ",
    "c", "a", "u", "s", "i", "n", "g", " ", "h", "a", "r", "m", " ", "o", "r", " ",
    "l", "o", "s", "s", " ", "t", "o", " ", "i", "n", "d", "i", "v", "i", "d", "u",
    "a", "l", "s", " ", "o", "r", " ", "t", "h", "e", "i", "r", " ", "p", "r", "o",
    "p", "e", "r", "t", "y", ".", " ", "T", "h", "e", " ", "f", "u", "n", "d", "a",
    "m", "e", "n", "t", "a", "l", " ", "p", "r", "i", "n", "c", "i", "p", "l", "e",
    " ", "o", "f", " ", "t", "o", "r", "t", " ", "l", "a", "w", " ", "i", "s", " ",
    "t", "o", " ", "p", "r", "o", "v", "i", "d", "e", " ", "c", "o", "m", "p", "e",
    "n", "s", "a", "t", "i", "o", "n", " ", "t", "o", " ", "v", "i", "c", "t", "i",
    "m", "s", " ", "w", "h", "o", " ", "h", "a", "v", "e", " ", "s", "u", "f", "f",
    "e", "r", "e", "d", " ", "i", "n", "j", "u", "r", "y", " ", "d", "u", "e", " ",
    "t", "o", " ", "a", "n", "o", "t", "h", "e", "r", " ", "p", "a", "r", "t", "y",
    "'", "s", " ", "w", "r", "o", "n", "g", "f", "u", "l", " ", "c", "o", "n", "d",
    "u", "c", "t", ".", " ", "N", "e", "g", "l", "i", "g", "e", "n", "c", "e", " ",
    "i", "s", " ", "a", " ", "k", "e", "y", " ", "c", "o", "n", "c", "e", "p", "t",
    " ", "r", "e", "q", "u", "i", "r", "i", "n", "g", " ", "f", "o", "u", "r", " ",
    "e", "s", "s", "e", "n", "t", "i", "a", "l", " ", "e", "l", "e", "m", "e", "n",
    "t", "s", ":", " ", "d", "u", "t", "y", " ", "o", "f", " ", "c", "a", "r", "e",
    ",", " ", "b", "r", "e", "a", "c", "h", " ", "o", "f", " ", "t", "h", "a", "t",
    " ", "d", "u", "t", "y", ",", " ", "c", "a", "u", "s", "a", "t", "i", "o", "n",
    ",", " ", "a", "n", "d", " ", "d", "a", "m", "a", "g", "e", "s", ".", " ", "D",
    "u", "t", "y", " ", "o", "f", " ", "c", "a", "r", "e", " ", "e", "s", "t", "a",
    "b", "l", "i", "s", "h", "e", "s", " ", "a", " ", "l", "e", "g", "a", "l", " ",
    "o", "b", "l", "i", "g", "a", "t", "i", "o", "n", " ", "t", "o", " ", "e", "x",
    "e", "r", "c", "i", "s", "e", " ", "r", "e", "a", "s", "o", "n", "a", "b", "l",
    "e", " ", "c", "a", "r", "e", " ", "t", "o", "w", "a", "r", "d", "s", " ", "o",
    "t", "h", "e", "r", "s", ".", " ", "B", "r", "e", "a", "c", "h", " ", "o", "c",
    "c", "u", "r", "s", " ", "w", "h", "e", "n", " ", "t", "h", "e", " ", "s", "t",
    "a", "n", "d", "a", "r", "d", " ", "o", "f", " ", "c", "a", "r", "e", " ", "i",
    "s", " ", "n", "o", "t", " ", "m", "e", "t", ".", " ", "C", "a", "u", "s", "a",
    "t", "i", "o", "n", " ", "r", "e", "q", "u", "i", "r", "e", "s", " ", "b", "o",
    "t", "h", " ", "f", "a", "c", "t", "u", "a", "l", " ", "a", "n", "d", " ", "l",
    "e", "g", "a", "l", " ", "c", "a", "u", "s", "e", " ", "c", "o", "n", "n", "e",
    "c", "t", "i", "n", "g", " ", "t", "h", "e", " ", "b", "r", "e", "a", "c", "h",
    " ", "t", "o", " ", "t", "h", "e", " ", "h", "a", "r", "m", ".", " ", "D", "a",
    "m", "a", "g", "e", "s", " ", "r", "e", "f", "e", "r", " ", "t", "o", " ", "t",
    "h", "e", " ", "a", "c", "t", "u", "a", "l", " ", "i", "n", "j", "u", "r", "y",
    " ", "o", "r", " ", "l", "o", "s", "s", " ", "s", "u", "f", "f", "e", "r", "e",
    "d", ".", " ", "R", "e", "m", "e", "d", "i", "e", "s", " ", "i", "n", " ", "t",
    "o", "r", "t", " ", "l", "a", "w", " ", "i", "n", "c", "l", "u", "d", "e", " ",
    "c", "o", "m", "p", "e", "n", "s", "a", "t", "o", "r", "y", " ", "d", "a", "m",
    "a", "g", "e", "s", " ", "f", "o", "r", " ", "e", "c", "o", "n", "o", "m", "i",
    "c", " ", "a", "n", "d", " ", "n", "o", "n", "-", "e", "c", "o", "n", "o", "m",
    "i", "c", " ", "l", "o", "s", "s", "e", "s", ",", " ", "p", "u", "n", "i", "t",
    "i", "v", "e", " ", "d", "a", "m", "a", "g", "e", "s", " ", "i", "n", " ", "c",
    "a", "s", "e", "s", " ", "o", "f", " ", "e", "g", "r", "e", "g", "i", "o", "u",
    "s", " ", "c", "o", "n", "d", "u", "c", "t", ",", " ", "a", "n", "d", " ", "i",
    "n", "j", "u", "n", "c", "t", "i", "o", "n", "s", " ", "t", "o", " ", "p", "r",
    "e", "v", "e", "n", "t", " ", "f", "u", "t", "u", "r", "e", " ", "h", "a", "r",
    "m", ".", " ", "T", "o", "r", "t", " ", "l", "a", "w", " ", "s", "e", "r", "v",
    "e", "s", " ", "t", "o", " ", "d", "e", "t", "e", "r", " ", "n", "e", "g", "l",
    "i", "g", "e", "n", "t", " ", "b", "e", "h", "a", "v", "i", "o", "r", ",", " ",
    "c", "o", "m", "p", "e", "n", "s", "a", "t", "e", " ", "v", "i", "c", "t", "i",
    "m", "s", ",", " ", "a", "n", "d", " ", "m", "a", "i", "n", "t", "a", "i", "n",
    " ", "s", "o", "c", "i", "a", "l", " ", "o", "r", "d", "e", "r", " ", "b", "y",
    " ", "h", "o", "l", "d", "i", "n", "g", " ", "i", "n", "d", "i", "v", "i", "d",
    "u", "a", "l", "s", " ", "a", "c", "c", "o", "u", "n", "t", "a", "b", "l", "e",
    " ", "f", "o", "r", " ", "t", "h", "e", "i", "r", " ", "a", "c", "t", "i", "o",
    "n", "s", "." >>

doc2Title == <<"C", "o", "n", "t", "r", "a", "c", "t", " ", "F", "o", "r", "m", "a", "t", "i", "o", "n", " ", "G", "u", "i", "d", "e">>

doc2Text ==
  <<
    "A", " ", "v", "a", "l", "i", "d", " ", "c", "o", "n", "t", "r", "a", "c", "t",
    " ", "r", "e", "q", "u", "i", "r", "e", "s", " ", "s", "e", "v", "e", "r", "a",
    "l", " ", "e", "s", "s", "e", "n", "t", "i", "a", "l", " ", "e", "l", "e", "m",
    "e", "n", "t", "s", ":", " ", "o", "f", "f", "e", "r", ",", " ", "a", "c", "c",
    "e", "p", "t", "a", "n", "c", "e", ",", " ", "c", "o", "n", "s", "i", "d", "e",
    "r", "a", "t", "i", "o", "n", ",", " ", "a", "n", "d", " ", "i", "n", "t", "e",
    "n", "t", "i", "o", "n", " ", "t", "o", " ", "c", "r", "e", "a", "t", "e", " ",
    "l", "e", "g", "a", "l", " ", "r", "e", "l", "a", "t", "i", "o", "n", "s", ".",
    " ", "A", "n", " ", "o", "f", "f", "e", "r", " ", "i", "s", " ", "a", " ", "c",
    "l", "e", "a", "r", " ", "p", "r", "o", "p", "o", "s", "a", "l", " ", "m", "a",
    "d", "e", " ", "b", "y", " ", "o", "n", "e", " ", "p", "a", "r", "t", "y", " ",
    "t", "o", " ", "a", "n", "o", "t", "h", "e", "r", " ", "w", "i", "t", "h", " ",
    "t", "h", "e", " ", "i", "n", "t", "e", "n", "t", " ", "t", "o", " ", "b", "e",
    " ", "b", "o", "u", "n", "d", " ", "u", "p", "o", "n", " ", "a", "c", "c", "e",
    "p", "t", "a", "n", "c", "e", ".", " ", "A", "c", "c", "e", "p", "t", "a", "n",
    "c", "e", " ", "m", "u", "s", "t", " ", "b", "e", " ", "u", "n", "e", "q", "u",
    "i", "v", "o", "c", "a", "l", " ", "a", "n", "d", " ", "c", "o", "m", "m", "u",
    "n", "i", "c", "a", "t", "e", "d", " ", "t", "o", " ", "t", "h", "e", " ", "o",
    "f", "f", "e", "r", "o", "r", ".", " ", "C", "o", "n", "s", "i", "d", "e", "r",
    "a", "t", "i", "o", "n", " ", "r", "e", "p", "r", "e", "s", "e", "n", "t", "s",
    " ", "s", "o", "m", "e", "t", "h", "i", "n", "g", " ", "o", "f", " ", "v", "a",
    "l", "u", "e", " ", "e", "x", "c", "h", "a", "n", "g", "e", "d", " ", "b", "e",
    "t", "w", "e", "e", "n", " ", "p", "a", "r", "t", "i", "e", "s", ",", " ", "w",
    "h", "i", "c", "h", " ", "d", "i", "s", "t", "i", "n", "g", "u", "i", "s", "h",
    "e", "s", " ", "c", "o", "n", "t", "r", "a", "c", "t", "s", " ", "f", "r", "o",
    "m", " ", "m", "e", "r", "e", " ", "p", "r", "o", "m", "i", "s", "e", "s", ".",
    " ", "T", "h", "e", " ", "i", "n", "t", "e", "n", "t", "i", "o", "n", " ", "t",
    "o", " ", "c", "r", "e", "a", "t", "e", " ", "l", "e", "g", "a", "l", " ", "r",
    "e", "l", "a", "t", "i", "o", "n", "s", " ", "d", "e", "m", "o", "n", "s", "t",
    "r", "a", "t", "e", "s", " ", "t", "h", "a", "t", " ", "p", "a", "r", "t", "i",
    "e", "s", " ", "i", "n", "t", "e", "n", "d", " ", "t", "h", "e", "i", "r", " ",
    "a", "g", "r", "e", "e", "m", "e", "n", "t", " ", "t", "o", " ", "b", "e", " ",
    "l", "e", "g", "a", "l", "l", "y", " ", "e", "n", "f", "o", "r", "c", "e", "a",
    "b", "l", "e", ".", " ", "B", "r", "e", "a", "c", "h", " ", "o", "f", " ", "c",
    "o", "n", "t", "r", "a", "c", "t", " ", "o", "c", "c", "u", "r", "s", " ", "w",
    "h", "e", "n", " ", "a", " ", "p", "a", "r", "t", "y", " ", "f", "a", "i", "l",
    "s", " ", "t", "o", " ", "p", "e", "r", "f", "o", "r", "m", " ", "t", "h", "e",
    "i", "r", " ", "o", "b", "l", "i", "g", "a", "t", "i", "o", "n", "s", " ", "a",
    "s", " ", "s", "p", "e", "c", "i", "f", "i", "e", "d", " ", "i", "n", " ", "t",
    "h", "e", " ", "a", "g", "r", "e", "e", "m", "e", "n", "t", ".", " ", "M", "a",
    "t", "e", "r", "i", "a", "l", " ", "b", "r", "e", "a", "c", "h", "e", "s", " ",
    "s", "u", "b", "s", "t", "a", "n", "t", "i", "a", "l", "l", "y", " ", "d", "e",
    "p", "r", "i", "v", "e", " ", "t", "h", "e", " ", "i", "n", "n", "o", "c", "e",
    "n", "t", " ", "p", "a", "r", "t", "y", " ", "o", "f", " ", "t", "h", "e", " ",
    "c", "o", "n", "t", "r", "a", "c", "t", "'", "s", " ", "b", "e", "n", "e", "f",
    "i", "t", ",", " ", "w", "h", "i", "l", "e", " ", "m", "i", "n", "o", "r", " ",
    "b", "r", "e", "a", "c", "h", "e", "s", " ", "a", "r", "e", " ", "l", "e", "s",
    "s", " ", "s", "i", "g", "n", "i", "f", "i", "c", "a", "n", "t", ".", " ", "R",
    "e", "m", "e", "d", "i", "e", "s", " ", "f", "o", "r", " ", "b", "r", "e", "a",
    "c", "h", " ", "i", "n", "c", "l", "u", "d", "e", " ", "d", "a", "m", "a", "g",
    "e", "s", " ", "t", "o", " ", "c", "o", "m", "p", "e", "n", "s", "a", "t", "e",
    " ", "f", "o", "r", " ", "l", "o", "s", "s", "e", "s", ",", " ", "s", "p", "e",
    "c", "i", "f", "i", "c", " ", "p", "e", "r", "f", "o", "r", "m", "a", "n", "c",
    "e", " ", "t", "o", " ", "e", "n", "f", "o", "r", "c", "e", " ", "t", "h", "e",
    " ", "c", "o", "n", "t", "r", "a", "c", "t", "'", "s", " ", "t", "e", "r", "m",
    "s", ",", " ", "a", "n", "d", " ", "r", "e", "s", "c", "i", "s", "s", "i", "o",
    "n", " ", "t", "o", " ", "c", "a", "n", "c", "e", "l", " ", "t", "h", "e", " ",
    "a", "g", "r", "e", "e", "m", "e", "n", "t", ".", " ", "C", "o", "n", "t", "r",
    "a", "c", "t", " ", "l", "a", "w", " ", "e", "n", "s", "u", "r", "e", "s", " ",
    "p", "r", "e", "d", "i", "c", "t", "a", "b", "i", "l", "i", "t", "y", " ", "i",
    "n", " ", "c", "o", "m", "m", "e", "r", "c", "i", "a", "l", " ", "t", "r", "a",
    "n", "s", "a", "c", "t", "i", "o", "n", "s", " ", "a", "n", "d", " ", "p", "r",
    "o", "v", "i", "d", "e", "s", " ", "m", "e", "c", "h", "a", "n", "i", "s", "m",
    "s", " ", "f", "o", "r", " ", "e", "n", "f", "o", "r", "c", "i", "n", "g", " ",
    "a", "g", "r", "e", "e", "m", "e", "n", "t", "s", " ", "f", "a", "i", "r", "l",
    "y", " ", "a", "n", "d", " ", "e", "f", "f", "i", "c", "i", "e", "n", "t", "l",
    "y", "." >>

doc3Title == <<"C", "r", "i", "m", "i", "n", "a", "l", " ", "P", "r", "o", "c", "e", "d", "u", "r", "e", " ", "O", "v", "e", "r", "v", "i", "e", "w">>

doc3Text ==
  <<
    "C", "r", "i", "m", "i", "n", "a", "l", " ", "p", "r", "o", "c", "e", "d", "u",
    "r", "e", " ", "g", "o", "v", "e", "r", "n", "s", " ", "t", "h", "e", " ", "p",
    "r", "o", "c", "e", "s", "s", " ", "f", "o", "r", " ", "i", "n", "v", "e", "s",
    "t", "i", "g", "a", "t", "i", "n", "g", ",", " ", "p", "r", "o", "s", "e", "c",
    "u", "t", "i", "n", "g", ",", " ", "a", "n", "d", " ", "a", "d", "j", "u", "d",
    "i", "c", "a", "t", "i", "n", "g", " ", "a", "l", "l", "e", "g", "e", "d", " ",
    "c", "r", "i", "m", "i", "n", "a", "l", " ", "o", "f", "f", "e", "n", "s", "e",
    "s", ".", " ", "T", "h", "e", " ", "s", "y", "s", "t", "e", "m", " ", "b", "a",
    "l", "a", "n", "c", "e", "s", " ", "t", "h", "e", " ", "s", "t", "a", "t", "e",
    "'", "s", " ", "i", "n", "t", "e", "r", "e", "s", "t", " ", "i", "n", " ", "m",
    "a", "i", "n", "t", "a", "i", "n", "i", "n", "g", " ", "o", "r", "d", "e", "r",
    " ", "w", "i", "t", "h", " ", "p", "r", "o", "t", "e", "c", "t", "i", "n", "g",
    " ", "i", "n", "d", "i", "v", "i", "d", "u", "a", "l", " ", "r", "i", "g", "h",
    "t", "s", ".", " ", "F", "u", "n", "d", "a", "m", "e", "n", "t", "a", "l", " ",
    "s", "t", "a", "n", "d", "a", "r", "d", "s", " ", "i", "n", "c", "l", "u", "d",
    "e", " ", "t", "h", "e", " ", "p", "r", "e", "s", "u", "m", "p", "t", "i", "o",
    "n", " ", "o", "f", " ", "i", "n", "n", "o", "c", "e", "n", "c", "e", ",", " ",
    "r", "e", "q", "u", "i", "r", "i", "n", "g", " ", "t", "h", "e", " ", "p", "r",
    "o", "s", "e", "c", "u", "t", "i", "o", "n", " ", "t", "o", " ", "p", "r", "o",
    "v", "e", " ", "g", "u", "i", "l", "t", " ", "b", "e", "y", "o", "n", "d", " ",
    "r", "e", "a", "s", "o", "n", "a", "b", "l", "e", " ", "d", "o", "u", "b", "t",
    ".", " ", "T", "h", "i", "s", " ", "h", "i", "g", "h", " ", "s", "t", "a", "n",
    "d", "a", "r", "d", " ", "p", "r", "o", "t", "e", "c", "t", "s", " ", "i", "n",
    "d", "i", "v", "i", "d", "u", "a", "l", "s", " ", "f", "r", "o", "m", " ", "w",
    "r", "o", "n", "g", "f", "u", "l", " ", "c", "o", "n", "v", "i", "c", "t", "i",
    "o", "n", ".", " ", "T", "h", "e", " ", "r", "i", "g", "h", "t", " ", "t", "o",
    " ", "c", "o", "u", "n", "s", "e", "l", " ", "e", "n", "s", "u", "r", "e", "s",
    " ", "d", "e", "f", "e", "n", "d", "a", "n", "t", "s", " ", "h", "a", "v", "e",
    " ", "l", "e", "g", "a", "l", " ", "r", "e", "p", "r", "e", "s", "e", "n", "t",
    "a", "t", "i", "o", "n", " ", "t", "h", "r", "o", "u", "g", "h", "o", "u", "t",
    " ", "t", "h", "e", " ", "p", "r", "o", "c", "e", "s", "s", ".", " ", "T", "h",
    "e", " ", "r", "i", "g", "h", "t", " ", "t", "o", " ", "a", " ", "f", "a", "i",
    "r", " ", "a", "n", "d", " ", "p", "u", "b", "l", "i", "c", " ", "t", "r", "i",
    "a", "l", " ", "p", "r", "e", "v", "e", "n", "t", "s", " ", "s", "e", "c", "r",
    "e", "t", " ", "p", "r", "o", "c", "e", "e", "d", "i", "n", "g", "s", " ", "a",
    "n", "d", " ", "e", "n", "s", "u", "r", "e", "s", " ", "t", "r", "a", "n", "s",
    "p", "a", "r", "e", "n", "c", "y", ".", " ", "D", "u", "e", " ", "p", "r", "o",
    "c", "e", "s", "s", " ", "g", "u", "a", "r", "a", "n", "t", "e", "e", "s", " ",
    "r", "e", "q", "u", "i", "r", "e", " ", "t", "h", "a", "t", " ", "p", "r", "o",
    "c", "e", "d", "u", "r", "e", "s", " ", "b", "e", " ", "f", "a", "i", "r", ",",
    " ", "c", "o", "n", "s", "i", "s", "t", "e", "n", "t", ",", " ", "a", "n", "d",
    " ", "f", "o", "l", "l", "o", "w", " ", "e", "s", "t", "a", "b", "l", "i", "s",
    "h", "e", "d", " ", "l", "e", "g", "a", "l", " ", "r", "u", "l", "e", "s", ".",
    " ", "E", "v", "i", "d", "e", "n", "c", "e", " ", "r", "u", "l", "e", "s", " ",
    "p", "r", "o", "t", "e", "c", "t", " ", "a", "g", "a", "i", "n", "s", "t", " ",
    "u", "n", "r", "e", "l", "i", "a", "b", "l", "e", " ", "o", "r", " ", "p", "r",
    "e", "j", "u", "d", "i", "c", "i", "a", "l", " ", "i", "n", "f", "o", "r", "m",
    "a", "t", "i", "o", "n", " ", "i", "n", "f", "l", "u", "e", "n", "c", "i", "n",
    "g", " ", "v", "e", "r", "d", "i", "c", "t", "s", ".", " ", "T", "h", "e", " ",
    "e", "x", "c", "l", "u", "s", "i", "o", "n", "a", "r", "y", " ", "r", "u", "l",
    "e", " ", "p", "r", "e", "v", "e", "n", "t", "s", " ", "i", "l", "l", "e", "g",
    "a", "l", "l", "y", " ", "o", "b", "t", "a", "i", "n", "e", "d", " ", "e", "v",
    "i", "d", "e", "n", "c", "e", " ", "f", "r", "o", "m", " ", "b", "e", "i", "n",
    "g", " ", "u", "s", "e", "d", " ", "i", "n", " ", "c", "o", "u", "r", "t", ".",
    " ", "T", "h", "e", "s", "e", " ", "p", "r", "o", "c", "e", "d", "u", "r", "a",
    "l", " ", "s", "a", "f", "e", "g", "u", "a", "r", "d", "s", " ", "m", "a", "i",
    "n", "t", "a", "i", "n", " ", "t", "h", "e", " ", "i", "n", "t", "e", "g", "r",
    "i", "t", "y", " ", "o", "f", " ", "t", "h", "e", " ", "c", "r", "i", "m", "i",
    "n", "a", "l", " ", "j", "u", "s", "t", "i", "c", "e", " ", "s", "y", "s", "t",
    "e", "m", " ", "a", "n", "d", " ", "p", "r", "o", "t", "e", "c", "t", " ", "a",
    "g", "a", "i", "n", "s", "t", " ", "g", "o", "v", "e", "r", "n", "m", "e", "n",
    "t", " ", "o", "v", "e", "r", "r", "e", "a", "c", "h", " ", "w", "h", "i", "l",
    "e", " ", "e", "n", "s", "u", "r", "i", "n", "g", " ", "t", "h", "a", "t", " ",
    "t", "h", "o", "s", "e", " ", "w", "h", "o", " ", "c", "o", "m", "m", "i", "t",
    " ", "c", "r", "i", "m", "e", "s", " ", "a", "r", "e", " ", "a", "p", "p", "r",
    "o", "p", "r", "i", "a", "t", "e", "l", "y", " ", "h", "e", "l", "d", " ", "a",
    "c", "c", "o", "u", "n", "t", "a", "b", "l", "e", "." >>

doc4Title == <<"P", "r", "o", "p", "e", "r", "t", "y", " ", "L", "a", "w", " ", "F", "u", "n", "d", "a", "m", "e", "n", "t", "a", "l", "s">>

doc4Text ==
  <<
    "P", "r", "o", "p", "e", "r", "t", "y", " ", "l", "a", "w", " ", "g", "o", "v",
    "e", "r", "n", "s", " ", "t", "h", "e", " ", "o", "w", "n", "e", "r", "s", "h",
    "i", "p", ",", " ", "u", "s", "e", ",", " ", "a", "n", "d", " ", "t", "r", "a",
    "n", "s", "f", "e", "r", " ", "o", "f", " ", "r", "e", "a", "l", " ", "a", "n",
    "d", " ", "p", "e", "r", "s", "o", "n", "a", "l", " ", "p", "r", "o", "p", "e",
    "r", "t", "y", ".", " ", "R", "e", "a", "l", " ", "p", "r", "o", "p", "e", "r",
    "t", "y", " ", "r", "e", "f", "e", "r", "s", " ", "t", "o", " ", "l", "a", "n",
    "d", " ", "a", "n", "d", " ", "s", "t", "r", "u", "c", "t", "u", "r", "e", "s",
    " ", "p", "e", "r", "m", "a", "n", "e", "n", "t", "l", "y", " ", "a", "t", "t",
    "a", "c", "h", "e", "d", " ", "t", "o", " ", "l", "a", "n", "d", ",", " ", "w",
    "h", "i", "l", "e", " ", "p", "e", "r", "s", "o", "n", "a", "l", " ", "p", "r",
    "o", "p", "e", "r", "t", "y", " ", "e", "n", "c", "o", "m", "p", "a", "s", "s",
    "e", "s", " ", "m", "o", "v", "a", "b", "l", "e", " ", "i", "t", "e", "m", "s",
    " ", "a", "n", "d", " ", "i", "n", "t", "a", "n", "g", "i", "b", "l", "e", " ",
    "a", "s", "s", "e", "t", "s", ".", " ", "O", "w", "n", "e", "r", "s", "h", "i",
    "p", " ", "r", "i", "g", "h", "t", "s", " ", "i", "n", "c", "l", "u", "d", "e",
    " ", "t", "h", "e", " ", "r", "i", "g", "h", "t", " ", "t", "o", " ", "p", "o",
    "s", "s", "e", "s", "s", ",", " ", "u", "s", "e", ",", " ", "t", "r", "a", "n",
    "s", "f", "e", "r", ",", " ", "a", "n", "d", " ", "e", "x", "c", "l", "u", "d",
    "e", " ", "o", "t", "h", "e", "r", "s", " ", "f", "r", "o", "m", " ", "t", "h",
    "e", " ", "p", "r", "o", "p", "e", "r", "t", "y", ".", " ", "T", "i", "t", "l",
    "e", " ", "r", "e", "p", "r", "e", "s", "e", "n", "t", "s", " ", "l", "e", "g",
    "a", "l", " ", "o", "w", "n", "e", "r", "s", "h", "i", "p", " ", "a", "n", "d",
    " ", "c", "a", "n", " ", "b", "e", " ", "t", "r", "a", "n", "s", "f", "e", "r",
    "r", "e", "d", " ", "t", "h", "r", "o", "u", "g", "h", " ", "s", "a", "l", "e",
    ",", " ", "g", "i", "f", "t", ",", " ", "i", "n", "h", "e", "r", "i", "t", "a",
    "n", "c", "e", ",", " ", "o", "r", " ", "a", "d", "v", "e", "r", "s", "e", " ",
    "p", "o", "s", "s", "e", "s", "s", "i", "o", "n", ".", " ", "E", "a", "s", "e",
    "m", "e", "n", "t", "s", " ", "g", "r", "a", "n", "t", " ", "l", "i", "m", "i",
    "t", "e", "d", " ", "r", "i", "g", "h", "t", "s", " ", "t", "o", " ", "u", "s",
    "e", " ", "a", "n", "o", "t", "h", "e", "r", "'", "s", " ", "p", "r", "o", "p",
    "e", "r", "t", "y", " ", "f", "o", "r", " ", "s", "p", "e", "c", "i", "f", "i",
    "c", " ", "p", "u", "r", "p", "o", "s", "e", "s", " ", "s", "u", "c", "h", " ",
    "a", "s", " ", "a", "c", "c", "e", "s", "s", " ", "o", "r", " ", "u", "t", "i",
    "l", "i", "t", "i", "e", "s", ".", " ", "L", "e", "a", "s", "e", "s", " ", "c",
    "r", "e", "a", "t", "e", " ", "t", "e", "m", "p", "o", "r", "a", "r", "y", " ",
    "p", "r", "o", "p", "e", "r", "t", "y", " ", "i", "n", "t", "e", "r", "e", "s",
    "t", "s", " ", "w", "h", "e", "r", "e", " ", "t", "e", "n", "a", "n", "t", "s",
    " ", "o", "b", "t", "a", "i", "n", " ", "p", "o", "s", "s", "e", "s", "s", "o",
    "r", "y", " ", "r", "i", "g", "h", "t", "s", " ", "f", "o", "r", " ", "a", " ",
    "s", "p", "e", "c", "i", "f", "i", "e", "d", " ", "p", "e", "r", "i", "o", "d",
    ".", " ", "Z", "o", "n", "i", "n", "g", " ", "l", "a", "w", "s", " ", "r", "e",
    "g", "u", "l", "a", "t", "e", " ", "l", "a", "n", "d", " ", "u", "s", "e", " ",
    "t", "o", " ", "p", "r", "o", "m", "o", "t", "e", " ", "o", "r", "d", "e", "r",
    "l", "y", " ", "d", "e", "v", "e", "l", "o", "p", "m", "e", "n", "t", " ", "a",
    "n", "d", " ", "p", "r", "o", "t", "e", "c", "t", " ", "c", "o", "m", "m", "u",
    "n", "i", "t", "y", " ", "i", "n", "t", "e", "r", "e", "s", "t", "s", ".", " ",
    "E", "m", "i", "n", "e", "n", "t", " ", "d", "o", "m", "a", "i", "n", " ", "a",
    "l", "l", "o", "w", "s", " ", "g", "o", "v", "e", "r", "n", "m", "e", "n", "t",
    "s", " ", "t", "o", " ", "a", "c", "q", "u", "i", "r", "e", " ", "p", "r", "i",
    "v", "a", "t", "e", " ", "p", "r", "o", "p", "e", "r", "t", "y", " ", "f", "o",
    "r", " ", "p", "u", "b", "l", "i", "c", " ", "u", "s", "e", " ", "w", "i", "t",
    "h", " ", "j", "u", "s", "t", " ", "c", "o", "m", "p", "e", "n", "s", "a", "t",
    "i", "o", "n", ".", " ", "P", "r", "o", "p", "e", "r", "t", "y", " ", "d", "i",
    "s", "p", "u", "t", "e", "s", " ", "o", "f", "t", "e", "n", " ", "i", "n", "v",
    "o", "l", "v", "e", " ", "b", "o", "u", "n", "d", "a", "r", "y", " ", "i", "s",
    "s", "u", "e", "s", ",", " ", "t", "i", "t", "l", "e", " ", "d", "e", "f", "e",
    "c", "t", "s", ",", " ", "o", "r", " ", "c", "o", "n", "f", "l", "i", "c", "t",
    "i", "n", "g", " ", "c", "l", "a", "i", "m", "s", " ", "t", "h", "a", "t", " ",
    "r", "e", "q", "u", "i", "r", "e", " ", "r", "e", "s", "o", "l", "u", "t", "i",
    "o", "n", " ", "t", "h", "r", "o", "u", "g", "h", " ", "n", "e", "g", "o", "t",
    "i", "a", "t", "i", "o", "n", ",", " ", "m", "e", "d", "i", "a", "t", "i", "o",
    "n", ",", " ", "o", "r", " ", "l", "i", "t", "i", "g", "a", "t", "i", "o", "n",
    ".", " ", "U", "n", "d", "e", "r", "s", "t", "a", "n", "d", "i", "n", "g", " ",
    "p", "r", "o", "p", "e", "r", "t", "y", " ", "l", "a", "w", " ", "i", "s", " ",
    "e", "s", "s", "e", "n", "t", "i", "a", "l", " ", "f", "o", "r", " ", "t", "r",
    "a", "n", "s", "a", "c", "t", "i", "o", "n", "s", ",", " ", "e", "s", "t", "a",
    "t", "e", " ", "p", "l", "a", "n", "n", "i", "n", "g", ",", " ", "a", "n", "d",
    " ", "r", "e", "s", "o", "l", "v", "i", "n", "g", " ", "o", "w", "n", "e", "r",
    "s", "h", "i", "p", " ", "c", "o", "n", "f", "l", "i", "c", "t", "s", " ", "e",
    "f", "f", "e", "c", "t", "i", "v", "e", "l", "y", "." >>

doc5Title == <<"C", "o", "n", "s", "t", "i", "t", "u", "t", "i", "o", "n", "a", "l", " ", "L", "a", "w", " ", "P", "r", "i", "n", "c", "i", "p", "l", "e", "s">>

doc5Text ==
  <<
    "C", "o", "n", "s", "t", "i", "t", "u", "t", "i", "o", "n", "a", "l", " ", "l",
    "a", "w", " ", "e", "s", "t", "a", "b", "l", "i", "s", "h", "e", "s", " ", "t",
    "h", "e", " ", "f", "r", "a", "m", "e", "w", "o", "r", "k", " ", "f", "o", "r",
    " ", "g", "o", "v", "e", "r", "n", "m", "e", "n", "t", " ", "s", "t", "r", "u",
    "c", "t", "u", "r", "e", ",", " ", "p", "o", "w", "e", "r", "s", ",", " ", "a",
    "n", "d", " ", "l", "i", "m", "i", "t", "a", "t", "i", "o", "n", "s", ".", " ",
    "T", "h", "e", " ", "c", "o", "n", "s", "t", "i", "t", "u", "t", "i", "o", "n",
    " ", "s", "e", "r", "v", "e", "s", " ", "a", "s", " ", "t", "h", "e", " ", "s",
    "u", "p", "r", "e", "m", "e", " ", "l", "a", "w", " ", "o", "f", " ", "t", "h",
    "e", " ", "l", "a", "n", "d", ",", " ", "e", "s", "t", "a", "b", "l", "i", "s",
    "h", "i", "n", "g", " ", "t", "h", "e", " ", "r", "e", "l", "a", "t", "i", "o",
    "n", "s", "h", "i", "p", " ", "b", "e", "t", "w", "e", "e", "n", " ", "g", "o",
    "v", "e", "r", "n", "m", "e", "n", "t", " ", "b", "r", "a", "n", "c", "h", "e",
    "s", " ", "a", "n", "d", " ", "p", "r", "o", "t", "e", "c", "t", "i", "n", "g",
    " ", "i", "n", "d", "i", "v", "i", "d", "u", "a", "l", " ", "r", "i", "g", "h",
    "t", "s", ".", " ", "S", "e", "p", "a", "r", "a", "t", "i", "o", "n", " ", "o",
    "f", " ", "p", "o", "w", "e", "r", "s", " ", "d", "i", "v", "i", "d", "e", "s",
    " ", "a", "u", "t", "h", "o", "r", "i", "t", "y", " ", "a", "m", "o", "n", "g",
    " ", "e", "x", "e", "c", "u", "t", "i", "v", "e", ",", " ", "l", "e", "g", "i",
    "s", "l", "a", "t", "i", "v", "e", ",", " ", "a", "n", "d", " ", "j", "u", "d",
    "i", "c", "i", "a", "l", " ", "b", "r", "a", "n", "c", "h", "e", "s", " ", "t",
    "o", " ", "p", "r", "e", "v", "e", "n", "t", " ", "c", "o", "n", "c", "e", "n",
    "t", "r", "a", "t", "i", "o", "n", " ", "o", "f", " ", "p", "o", "w", "e", "r",
    ".", " ", "F", "e", "d", "e", "r", "a", "l", "i", "s", "m", " ", "d", "i", "s",
    "t", "r", "i", "b", "u", "t", "e", "s", " ", "p", "o", "w", "e", "r", "s", " ",
    "b", "e", "t", "w", "e", "e", "n", " ", "n", "a", "t", "i", "o", "n", "a", "l",
    " ", "a", "n", "d", " ", "s", "t", "a", "t", "e", " ", "g", "o", "v", "e", "r",
    "n", "m", "e", "n", "t", "s", ",", " ", "c", "r", "e", "a", "t", "i", "n", "g",
    " ", "a", " ", "s", "y", "s", "t", "e", "m", " ", "o", "f", " ", "d", "u", "a",
    "l", " ", "s", "o", "v", "e", "r", "e", "i", "g", "n", "t", "y", ".", " ", "J",
    "u", "d", "i", "c", "i", "a", "l", " ", "r", "e", "v", "i", "e", "w", " ", "e",
    "m", "p", "o", "w", "e", "r", "s", " ", "c", "o", "u", "r", "t", "s", " ", "t",
    "o", " ", "e", "x", "a", "m", "i", "n", "e", " ", "a", "n", "d", " ", "i", "n",
    "v", "a", "l", "i", "d", "a", "t", "e", " ", "l", "a", "w", "s", " ", "o", "r",
    " ", "a", "c", "t", "i", "o", "n", "s", " ", "t", "h", "a", "t", " ", "v", "i",
    "o", "l", "a", "t", "e", " ", "c", "o", "n", "s", "t", "i", "t", "u", "t", "i",
    "o", "n", "a", "l", " ", "p", "r", "o", "v", "i", "s", "i", "o", "n", "s", ".",
    " ", "F", "u", "n", "d", "a", "m", "e", "n", "t", "a", "l", " ", "r", "i", "g",
    "h", "t", "s", " ", "i", "n", "c", "l", "u", "d", "e", " ", "f", "r", "e", "e",
    "d", "o", "m", " ", "o", "f", " ", "s", "p", "e", "e", "c", "h", ",", " ", "r",
    "e", "l", "i", "g", "i", "o", "n", ",", " ", "a", "n", "d", " ", "a", "s", "s",
    "e", "m", "b", "l", "y", " ", "p", "r", "o", "t", "e", "c", "t", "e", "d", " ",
    "b", "y", " ", "t", "h", "e", " ", "B", "i", "l", "l", " ", "o", "f", " ", "R",
    "i", "g", "h", "t", "s", ".", " ", "E", "q", "u", "a", "l", " ", "p", "r", "o",
    "t", "e", "c", "t", "i", "o", "n", " ", "r", "e", "q", "u", "i", "r", "e", "s",
    " ", "t", "h", "a", "t", " ", "l", "a", "w", "s", " ", "a", "p", "p", "l", "y",
    " ", "u", "n", "i", "f", "o", "r", "m", "l", "y", " ", "w", "i", "t", "h", "o",
    "u", "t", " ", "u", "n", "j", "u", "s", "t", " ", "d", "i", "s", "c", "r", "i",
    "m", "i", "n", "a", "t", "i", "o", "n", ".", " ", "D", "u", "e", " ", "p", "r",
    "o", "c", "e", "s", "s", " ", "g", "u", "a", "r", "a", "n", "t", "e", "e", "s",
    " ", "f", "a", "i", "r", " ", "p", "r", "o", "c", "e", "d", "u", "r", "e", "s",
    " ", "b", "e", "f", "o", "r", "e", " ", "d", "e", "p", "r", "i", "v", "a", "t",
    "i", "o", "n", " ", "o", "f", " ", "l", "i", "f", "e", ",", " ", "l", "i", "b",
    "e", "r", "t", "y", ",", " ", "o", "r", " ", "p", "r", "o", "p", "e", "r", "t",
    "y", ".", " ", "T", "h", "e", " ", "c", "o", "m", "m", "e", "r", "c", "e", " ",
    "c", "l", "a", "u", "s", "e", " ", "g", "r", "a", "n", "t", "s", " ", "f", "e",
    "d", "e", "r", "a", "l", " ", "a", "u", "t", "h", "o", "r", "i", "t", "y", " ",
    "t", "o", " ", "r", "e", "g", "u", "l", "a", "t", "e", " ", "i", "n", "t", "e",
    "r", "s", "t", "a", "t", "e", " ", "e", "c", "o", "n", "o", "m", "i", "c", " ",
    "a", "c", "t", "i", "v", "i", "t", "i", "e", "s", ".", " ", "C", "o", "n", "s",
    "t", "i", "t", "u", "t", "i", "o", "n", "a", "l", " ", "a", "m", "e", "n", "d",
    "m", "e", "n", "t", "s", " ", "a", "d", "a", "p", "t", " ", "t", "h", "e", " ",
    "d", "o", "c", "u", "m", "e", "n", "t", " ", "t", "o", " ", "c", "h", "a", "n",
    "g", "i", "n", "g", " ", "c", "i", "r", "c", "u", "m", "s", "t", "a", "n", "c",
    "e", "s", " ", "w", "h", "i", "l", "e", " ", "m", "a", "i", "n", "t", "a", "i",
    "n", "i", "n", "g", " ", "c", "o", "r", "e", " ", "d", "e", "m", "o", "c", "r",
    "a", "t", "i", "c", " ", "p", "r", "i", "n", "c", "i", "p", "l", "e", "s", ".",
    " ", "C", "o", "n", "s", "t", "i", "t", "u", "t", "i", "o", "n", "a", "l", " ",
    "i", "n", "t", "e", "r", "p", "r", "e", "t", "a", "t", "i", "o", "n", " ", "i",
    "n", "v", "o", "l", "v", "e", "s", " ", "b", "a", "l", "a", "n", "c", "i", "n",
    "g", " ", "t", "e", "x", "t", "u", "a", "l", " ", "m", "e", "a", "n", "i", "n",
    "g", ",", " ", "h", "i", "s", "t", "o", "r", "i", "c", "a", "l", " ", "c", "o",
    "n", "t", "e", "x", "t", ",", " ", "a", "n", "d", " ", "c", "o", "n", "t", "e",
    "m", "p", "o", "r", "a", "r", "y", " ", "n", "e", "e", "d", "s", " ", "t", "o",
    " ", "m", "a", "i", "n", "t", "a", "i", "n", " ", "a", " ", "l", "i", "v", "i",
    "n", "g", " ", "f", "r", "a", "m", "e", "w", "o", "r", "k", " ", "t", "h", "a",
    "t", " ", "s", "e", "r", "v", "e", "s", " ", "e", "v", "o", "l", "v", "i", "n",
    "g", " ", "s", "o", "c", "i", "e", "t", "y", "." >>

doc6Title == <<"E", "m", "p", "l", "o", "y", "m", "e", "n", "t", " ", "L", "a", "w", " ", "E", "s", "s", "e", "n", "t", "i", "a", "l", "s">>

doc6Text ==
  <<
    "E", "m", "p", "l", "o", "y", "m", "e", "n", "t", " ", "l", "a", "w", " ", "r",
    "e", "g", "u", "l", "a", "t", "e", "s", " ", "t", "h", "e", " ", "r", "e", "l",
    "a", "t", "i", "o", "n", "s", "h", "i", "p", " ", "b", "e", "t", "w", "e", "e",
    "n", " ", "e", "m", "p", "l", "o", "y", "e", "r", "s", " ", "a", "n", "d", " ",
    "e", "m", "p", "l", "o", "y", "e", "e", "s", ",", " ", "e", "s", "t", "a", "b",
    "l", "i", "s", "h", "i", "n", "g", " ", "r", "i", "g", "h", "t", "s", " ", "a",
    "n", "d", " ", "o", "b", "l", "i", "g", "a", "t", "i", "o", "n", "s", " ", "f",
    "o", "r", " ", "b", "o", "t", "h", " ", "p", "a", "r", "t", "i", "e", "s", ".",
    " ", "E", "m", "p", "l", "o", "y", "m", "e", "n", "t", " ", "r", "e", "l", "a",
    "t", "i", "o", "n", "s", "h", "i", "p", "s", " ", "m", "a", "y", " ", "b", "e",
    " ", "a", "t", "-", "w", "i", "l", "l", ",", " ", "w", "h", "e", "r", "e", " ",
    "e", "i", "t", "h", "e", "r", " ", "p", "a", "r", "t", "y", " ", "c", "a", "n",
    " ", "t", "e", "r", "m", "i", "n", "a", "t", "e", " ", "w", "i", "t", "h", "o",
    "u", "t", " ", "c", "a", "u", "s", "e", ",", " ", "o", "r", " ", "g", "o", "v",
    "e", "r", "n", "e", "d", " ", "b", "y", " ", "c", "o", "n", "t", "r", "a", "c",
    "t", "s", " ", "s", "p", "e", "c", "i", "f", "y", "i", "n", "g", " ", "t", "e",
    "r", "m", "s", " ", "a", "n", "d", " ", "c", "o", "n", "d", "i", "t", "i", "o",
    "n", "s", ".", " ", "D", "i", "s", "c", "r", "i", "m", "i", "n", "a", "t", "i",
    "o", "n", " ", "b", "a", "s", "e", "d", " ", "o", "n", " ", "r", "a", "c", "e",
    ",", " ", "g", "e", "n", "d", "e", "r", ",", " ", "a", "g", "e", ",", " ", "r",
    "e", "l", "i", "g", "i", "o", "n", ",", " ", "d", "i", "s", "a", "b", "i", "l",
    "i", "t", "y", ",", " ", "o", "r", " ", "o", "t", "h", "e", "r", " ", "p", "r",
    "o", "t", "e", "c", "t", "e", "d", " ", "c", "h", "a", "r", "a", "c", "t", "e",
    "r", "i", "s", "t", "i", "c", "s", " ", "i", "s", " ", "p", "r", "o", "h", "i",
    "b", "i", "t", "e", "d", " ", "b", "y", " ", "f", "e", "d", "e", "r", "a", "l",
    " ", "a", "n", "d", " ", "s", "t", "a", "t", "e", " ", "l", "a", "w", "s", ".",
    " ", "W", "o", "r", "k", "p", "l", "a", "c", "e", " ", "h", "a", "r", "a", "s",
    "s", "m", "e", "n", "t", " ", "c", "r", "e", "a", "t", "e", "s", " ", "h", "o",
    "s", "t", "i", "l", "e", " ", "e", "n", "v", "i", "r", "o", "n", "m", "e", "n",
    "t", "s", " ", "a", "n", "d", " ", "v", "i", "o", "l", "a", "t", "e", "s", " ",
    "a", "n", "t", "i", "-", "d", "i", "s", "c", "r", "i", "m", "i", "n", "a", "t",
    "i", "o", "n", " ", "s", "t", "a", "t", "u", "t", "e", "s", " ", "w", "h", "e",
    "n", " ", "b", "a", "s", "e", "d", " ", "o", "n", " ", "p", "r", "o", "t", "e",
    "c", "t", "e", "d", " ", "c", "h", "a", "r", "a", "c", "t", "e", "r", "i", "s",
    "t", "i", "c", "s", ".", " ", "W", "a", "g", "e", " ", "a", "n", "d", " ", "h",
    "o", "u", "r", " ", "l", "a", "w", "s", " ", "m", "a", "n", "d", "a", "t", "e",
    " ", "m", "i", "n", "i", "m", "u", "m", " ", "w", "a", "g", "e", "s", ",", " ",
    "o", "v", "e", "r", "t", "i", "m", "e", " ", "p", "a", "y", ",", " ", "a", "n",
    "d", " ", "r", "e", "g", "u", "l", "a", "t", "e", " ", "w", "o", "r", "k", "i",
    "n", "g", " ", "h", "o", "u", "r", "s", " ", "t", "o", " ", "p", "r", "o", "t",
    "e", "c", "t", " ", "w", "o", "r", "k", "e", "r", "s", "'", " ", "e", "c", "o",
    "n", "o", "m", "i", "c", " ", "i", "n", "t", "e", "r", "e", "s", "t", "s", ".",
    " ", "W", "o", "r", "k", "e", "r", "s", "'", " ", "c", "o", "m", "p", "e", "n",
    "s", "a", "t", "i", "o", "n", " ", "p", "r", "o", "v", "i", "d", "e", "s", " ",
    "b", "e", "n", "e", "f", "i", "t", "s", " ", "f", "o", "r", " ", "j", "o", "b",
    "-", "r", "e", "l", "a", "t", "e", "d", " ", "i", "n", "j", "u", "r", "i", "e",
    "s", " ", "o", "r", " ", "i", "l", "l", "n", "e", "s", "s", "e", "s", " ", "w",
    "i", "t", "h", "o", "u", "t", " ", "r", "e", "q", "u", "i", "r", "i", "n", "g",
    " ", "p", "r", "o", "o", "f", " ", "o", "f", " ", "e", "m", "p", "l", "o", "y",
    "e", "r", " ", "f", "a", "u", "l", "t", ".", " ", "F", "a", "m", "i", "l", "y",
    " ", "a", "n", "d", " ", "m", "e", "d", "i", "c", "a", "l", " ", "l", "e", "a",
    "v", "e", " ", "l", "a", "w", "s", " ", "a", "l", "l", "o", "w", " ", "e", "m",
    "p", "l", "o", "y", "e", "e", "s", " ", "t", "o", " ", "t", "a", "k", "e", " ",
    "p", "r", "o", "t", "e", "c", "t", "e", "d", " ", "t", "i", "m", "e", " ", "o",
    "f", "f", " ", "f", "o", "r", " ", "h", "e", "a", "l", "t", "h", " ", "c", "o",
    "n", "d", "i", "t", "i", "o", "n", "s", " ", "o", "r", " ", "f", "a", "m", "i",
    "l", "y", " ", "r", "e", "s", "p", "o", "n", "s", "i", "b", "i", "l", "i", "t",
    "i", "e", "s", ".", " ", "O", "c", "c", "u", "p", "a", "t", "i", "o", "n", "a",
    "l", " ", "s", "a", "f", "e", "t", "y", " ", "r", "e", "g", "u", "l", "a", "t",
    "i", "o", "n", "s", " ", "r", "e", "q", "u", "i", "r", "e", " ", "e", "m", "p",
    "l", "o", "y", "e", "r", "s", " ", "t", "o", " ", "p", "r", "o", "v", "i", "d",
    "e", " ", "s", "a", "f", "e", " ", "w", "o", "r", "k", "i", "n", "g", " ", "c",
    "o", "n", "d", "i", "t", "i", "o", "n", "s", " ", "a", "n", "d", " ", "c", "o",
    "m", "p", "l", "y", " ", "w", "i", "t", "h", " ", "h", "e", "a", "l", "t", "h",
    " ", "s", "t", "a", "n", "d", "a", "r", "d", "s", ".", " ", "E", "m", "p", "l",
    "o", "y", "m", "e", "n", "t", " ", "c", "o", "n", "t", "r", "a", "c", "t", "s",
    " ", "m", "a", "y", " ", "i", "n", "c", "l", "u", "d", "e", " ", "n", "o", "n",
    "-", "c", "o", "m", "p", "e", "t", "e", " ", "c", "l", "a", "u", "s", "e", "s",
    ",", " ", "c", "o", "n", "f", "i", "d", "e", "n", "t", "i", "a", "l", "i", "t",
    "y", " ", "a", "g", "r", "e", "e", "m", "e", "n", "t", "s", ",", " ", "a", "n",
    "d", " ", "d", "i", "s", "p", "u", "t", "e", " ", "r", "e", "s", "o", "l", "u",
    "t", "i", "o", "n", " ", "m", "e", "c", "h", "a", "n", "i", "s", "m", "s", ".",
    " ", "W", "r", "o", "n", "g", "f", "u", "l", " ", "t", "e", "r", "m", "i", "n",
    "a", "t", "i", "o", "n", " ", "c", "l", "a", "i", "m", "s", " ", "a", "r", "i",
    "s", "e", " ", "w", "h", "e", "n", " ", "d", "i", "s", "m", "i", "s", "s", "a",
    "l", "s", " ", "v", "i", "o", "l", "a", "t", "e", " ", "c", "o", "n", "t", "r",
    "a", "c", "t", "s", ",", " ", "p", "u", "b", "l", "i", "c", " ", "p", "o", "l",
    "i", "c", "y", ",", " ", "o", "r", " ", "a", "n", "t", "i", "-", "d", "i", "s",
    "c", "r", "i", "m", "i", "n", "a", "t", "i", "o", "n", " ", "l", "a", "w", "s",
    ".", " ", "E", "m", "p", "l", "o", "y", "m", "e", "n", "t", " ", "l", "a", "w",
    " ", "b", "a", "l", "a", "n", "c", "e", "s", " ", "p", "r", "o", "t", "e", "c",
    "t", "i", "n", "g", " ", "w", "o", "r", "k", "e", "r", "s", "'", " ", "r", "i",
    "g", "h", "t", "s", " ", "w", "i", "t", "h", " ", "a", "l", "l", "o", "w", "i",
    "n", "g", " ", "e", "m", "p", "l", "o", "y", "e", "r", "s", " ", "f", "l", "e",
    "x", "i", "b", "i", "l", "i", "t", "y", " ", "t", "o", " ", "m", "a", "n", "a",
    "g", "e", " ", "t", "h", "e", "i", "r", " ", "o", "p", "e", "r", "a", "t", "i",
    "o", "n", "s", " ", "e", "f", "f", "e", "c", "t", "i", "v", "e", "l", "y", "." >>
FallbackDocs ==
  << [doc_id |-> <<"d", "o", "c", "1">>, title |-> doc1Title, text |-> doc1Text],
     [doc_id |-> <<"d", "o", "c", "2">>, title |-> doc2Title, text |-> doc2Text],
     [doc_id |-> <<"d", "o", "c", "3">>, title |-> doc3Title, text |-> doc3Text],
     [doc_id |-> <<"d", "o", "c", "4">>, title |-> doc4Title, text |-> doc4Text],
     [doc_id |-> <<"d", "o", "c", "5">>, title |-> doc5Title, text |-> doc5Text],
     [doc_id |-> <<"d", "o", "c", "6">>, title |-> doc6Title, text |-> doc6Text] >>

----------------------------------------------------------------------------
(* _tokenize.  Every request tokenizes the same embedded texts and their   *)
(* sentences again; their tokens are tabulated once, and any other text is *)
(* tokenized on the spot.                                                  *)

Elements(seq) == {seq[k] : k \in 1..Len(seq)}

\* the texts of docs and their sentences
TextsOf(docs) ==
  UNION {{docs[i].text} \cup Elements(_sentence_split(docs[i].text)) : i \in 1..Len(docs)}

TokenTable(docs) == [text \in TextsOf(docs) |-> Tokens(text)]

EmbeddedTokens == TokenTable(FallbackDocs)

Lookup(table, text) == IF text \in DOMAIN table THEN table[text] ELSE Tokens(text)

_tokenize(text) == Lookup(EmbeddedTokens, text)

----------------------------------------------------------------------------
(* _load_docs: dir is the sorted list of the directory's .txt files,        *)
(* <<[stem, text]>>; empty files are skipped, and the embedded documents    *)
(* are used when no file was loaded                                         *)

_load_docs(dir) ==
  LET files == SelectSeq(dir, LAMBDA f : strip(f.text) # <<>>)
      docs == List([i \in 1..Len(files) |->
                      [doc_id |-> files[i].stem,
                       title |-> title(files[i].stem),
                       text |-> strip(files[i].text)]])
  IN  IF docs = <<>> THEN FallbackDocs ELSE docs

\* DOC_SENTENCES = {k: _sentence_split(v["text"]) for k, v in DOCS.items()}
SentencesOf(docs) ==
  List([i \in 1..Len(docs) |->
          [doc_id |-> docs[i].doc_id, sentences |-> _sentence_split(docs[i].text)]])

\* DOC_SENTENCES.get(doc_id, [])
Get(doc_sentences, doc_id) ==
  LET at == {i \in 1..Len(doc_sentences) : doc_sentences[i].doc_id = doc_id}
  IN  IF at = {} THEN <<>> ELSE doc_sentences[CHOOSE i \in at : TRUE].sentences

----------------------------------------------------------------------------
(* _score_doc *)

\* text_tokens.count(q)
Count(tokens, q) == Cardinality({i \in 1..Len(tokens) : tokens[i] = q})

\* sum(tokens.count(q) for q in query_tokens): a repeated query token counts again
RECURSIVE Hits(_, _)
Hits(tokens, query_tokens) ==
  IF query_tokens = <<>> THEN 0
  ELSE Count(tokens, Head(query_tokens)) + Hits(tokens, Tail(query_tokens))

Max(a, b) == IF a >= b THEN a ELSE b

_score_doc(query_tokens, text_tokens) ==
  IF query_tokens = <<>> \/ text_tokens = <<>> THEN [num |-> 0, den |-> 1]
  ELSE [num |-> Hits(text_tokens, query_tokens), den |-> Max(1, Len(text_tokens))]

\* comparison of two scores as numbers
ScoreGt(a, b) == a.num * b.den > b.num * a.den
ScorePositive(a) == a.num > 0

----------------------------------------------------------------------------
(* _best_snippets *)

\* ranked: (hit, s) for the sentences with a positive hit count, in document order
Ranked(sentences, query_tokens) ==
  SelectSeq([i \in 1..Len(sentences) |->
               [hit |-> Hits(_tokenize(sentences[i]), query_tokens), s |-> sentences[i]]],
            LAMBDA r : r.hit > 0)

\* a variant of SnippetBefore that ranks by sentence length alone
SnippetBefore_shortest(a, b) == Len(a.s) < Len(b.s)

\* the sort key (-hit, len(s)) of a and b compared: a sorts strictly before b
SnippetBefore(a, b) == a.hit > b.hit \/ (a.hit = b.hit /\ Len(a.s) < Len(b.s))

\* ranked.sort(key=lambda x: (-x[0], len(x[1]))): stable
RECURSIVE SortRanked(_)
SortRanked(ranked) ==
  IF ranked = <<>> THEN <<>>
  ELSE LET n == Len(ranked)
           x == ranked[n]
           rest == SortRanked(SubSeq(ranked, 1, n - 1))
           k == Cardinality({i \in 1..Len(rest) : ~SnippetBefore(x, rest[i])})
       IN  SubSeq(rest, 1, k) \o <<x>> \o SubSeq(rest, k + 1, Len(rest))

\* seq[:n]
Take(seq, n) == SubSeq(seq, 1, IF Len(seq) < n THEN Len(seq) ELSE n)

\* a variant of _best_snippets without the [:MAX_SNIPPETS_PER_DOC] slice
_best_snippets_all(doc_sentences, doc_id, query_tokens) ==
  LET ranked == SortRanked(Ranked(Get(doc_sentences, doc_id), query_tokens))
  IN  List([i \in 1..Len(ranked) |-> ranked[i].s])

_best_snippets(doc_sentences, doc_id, query_tokens) ==
  LET top == Take(SortRanked(Ranked(Get(doc_sentences, doc_id), query_tokens)),
                  MAX_SNIPPETS_PER_DOC)
  IN  List([i \in 1..Len(top) |-> top[i].s])

----------------------------------------------------------------------------
(* _make_summary *)

\* s in collected
In(s, collected) == \E i \in 1..Len(collected) : collected[i] = s

\* a variant of target_count that is one too large
target_count_plus(query_tokens) == Max(MIN_SUMMARY_SENTENCES, Len(query_tokens)) + 1

\* target_count = max(MIN_SUMMARY_SENTENCES, len(query_tokens))
target_count(query_tokens) == Max(MIN_SUMMARY_SENTENCES, Len(query_tokens))

\* query_tokens and any(q in toks for q in query_tokens), toks = _tokenize(s)
HasQueryToken(s, query_tokens) ==
  LET toks == _tokenize(s)
  IN  /\ query_tokens # <<>>
      /\ \E i \in 1..Len(query_tokens) : \E j \in 1..Len(toks) : toks[j] = query_tokens[i]

\* the inner loop over the sentences of one document, from sentence i on:
\* stop at limit; append a sentence not yet collected (in the first pass only
\* if it holds a query token)
RECURSIVE WalkSentences(_, _, _, _, _, _)
WalkSentences(sentences, i, collected, limit, only_hits, query_tokens) ==
  IF i > Len(sentences) \/ Len(collected) >= limit THEN collected
  ELSE LET s == sentences[i]
           add == /\ (only_hits => HasQueryToken(s, query_tokens))
                  /\ ~In(s, collected)
       IN  WalkSentences(sentences, i + 1,
                         IF add THEN Append(collected, s) ELSE collected,
                         limit, only_hits, query_tokens)

\* the outer loop over sorted_docs, from document d on
RECURSIVE WalkDocs(_, _, _, _, _, _, _)
WalkDocs(doc_sentences, sorted_docs, d, collected, limit, only_hits, query_tokens) ==
  IF d > Len(sorted_docs) \/ Len(collected) >= limit THEN collected
  ELSE WalkDocs(doc_sentences, sorted_docs, d + 1,
                WalkSentences(Get(doc_sentences, sorted_docs[d].doc_id), 1,
                              collected, limit, only_hits, query_tokens),
                limit, only_hits, query_tokens)

\* lines 233-243: sentences of the scored documents that hold a query token
Pass1(doc_sentences, sorted_docs, query_tokens) ==
  WalkDocs(doc_sentences, sorted_docs, 1, <<>>,
           target_count(query_tokens), TRUE, query_tokens)

\* a variant of Pass2 that only runs when the first pass collected nothing
Pass2_skipped(doc_sentences, sorted_docs, query_tokens, collected) ==
  IF collected = <<>> /\ sorted_docs # <<>>
    THEN WalkDocs(doc_sentences, sorted_docs, 1, collected,
                  target_count(query_tokens), FALSE, query_tokens)
    ELSE collected

\* lines 245-254: any sentence of the scored documents, up to target_count
Pass2(doc_sentences, sorted_docs, query_tokens, collected) ==
  IF Len(collected) < target_count(query_tokens) /\ sorted_docs # <<>>
    THEN WalkDocs(doc_sentences, sorted_docs, 1, collected,
                  target_count(query_tokens), FALSE, query_tokens)
    ELSE collected

\* lines 256-263: sentences of the top document, up to MIN_SUMMARY_SENTENCES
Pass3(doc_sentences, sorted_docs, query_tokens, collected) ==
  IF Len(collected) < MIN_SUMMARY_SENTENCES /\ sorted_docs # <<>>
    THEN WalkSentences(Get(doc_sentences, sorted_docs[1].doc_id), 1, collected,
                       MIN_SUMMARY_SENTENCES, FALSE, query_tokens)
    ELSE collected

\* a variant of LastResort that takes the sentences of the last document
LastResort_last(doc_sentences, collected) ==
  IF collected = <<>> /\ doc_sentences # <<>>
    THEN LET with == {i \in 1..Len(doc_sentences) : doc_sentences[i].sentences # <<>>}
         IN  IF with = {} THEN collected
             ELSE Take(doc_sentences[CHOOSE i \in with : \A j \in with : j <= i].sentences,
                       MIN_SUMMARY_SENTENCES)
    ELSE collected

\* lines 265-270: the first sentences of the first document that has any
LastResort(doc_sentences, collected) ==
  IF collected = <<>> /\ doc_sentences # <<>>
    THEN LET with == {i \in 1..Len(doc_sentences) : doc_sentences[i].sentences # <<>>}
         IN  IF with = {} THEN collected
             ELSE Take(doc_sentences[CHOOSE i \in with : \A j \in with : i <= j].sentences,
                       MIN_SUMMARY_SENTENCES)
    ELSE collected

NoSummary ==
  <<"N", "o", " ", "r", "e", "l", "e", "v", "a", "n", "t", " ", "s", "u", "m", "m",
    "a", "r", "y", " ", "c", "o", "u", "l", "d", " ", "b", "e", " ", "g", "e", "n",
    "e", "r", "a", "t", "e", "d", ".">>

\* the value of collected after each of the four passes
AfterPass3(doc_sentences, p1, p2, p3) ==
  [pass1 |-> p1, pass2 |-> p2, pass3 |-> p3,
   collected |-> LastResort(doc_sentences, p3)]

AfterPass2(doc_sentences, sorted_docs, query_tokens, p1, p2) ==
  AfterPass3(doc_sentences, p1, p2, Pass3(doc_sentences, sorted_docs, query_tokens, p2))

AfterPass1(doc_sentences, sorted_docs, query_tokens, p1) ==
  AfterPass2(doc_sentences, sorted_docs, query_tokens, p1,
             Pass2(doc_sentences, sorted_docs, query_tokens, p1))

SummaryPasses(doc_sentences, sorted_docs, query_tokens) ==
  AfterPass1(doc_sentences, sorted_docs, query_tokens,
             Pass1(doc_sentences, sorted_docs, query_tokens))

\* line 272
SummaryText(collected) ==
  IF collected # <<>> THEN join(<<" ">>, collected) ELSE NoSummary

_make_summary(doc_sentences, sorted_docs, query_tokens) ==
  SummaryText(SummaryPasses(doc_sentences, sorted_docs, query_tokens).collected)

----------------------------------------------------------------------------
(* generate *)

\* lines 289-293: the documents with score > 0, in corpus order
Scored(docs, query_tokens) ==
  SelectSeq([i \in 1..Len(docs) |->
               [doc_id |-> docs[i].doc_id,
                score |-> _score_doc(query_tokens, _tokenize(docs[i].text))]],
            LAMBDA e : ScorePositive(e.score))

\* a variant of SortScored that puts a document before those of equal score
RECURSIVE SortScored_unstable(_)
SortScored_unstable(scored) ==
  IF scored = <<>> THEN <<>>
  ELSE LET n == Len(scored)
           x == scored[n]
           rest == SortScored_unstable(SubSeq(scored, 1, n - 1))
           k == Cardinality({i \in 1..Len(rest) : ScoreGt(rest[i].score, x.score)})
       IN  SubSeq(rest, 1, k) \o <<x>> \o SubSeq(rest, k + 1, Len(rest))

\* scored.sort(key=lambda x: x[1], reverse=True): stable, equal scores keep their order
RECURSIVE SortScored(_)
SortScored(scored) ==
  IF scored = <<>> THEN <<>>
  ELSE LET n == Len(scored)
           x == scored[n]
           rest == SortScored(SubSeq(scored, 1, n - 1))
           k == Cardinality({i \in 1..Len(rest) : ~ScoreGt(x.score, rest[i].score)})
       IN  SubSeq(rest, 1, k) \o <<x>> \o SubSeq(rest, k + 1, Len(rest))

\* DOCS[doc_id]["title"]
TitleOf(docs, doc_id) == docs[CHOOSE i \in 1..Len(docs) : docs[i].doc_id = doc_id].title

\* line 298 for each document of scored[:10]
Snippets(doc_sentences, top, query_tokens) ==
  List([i \in 1..Len(top) |-> _best_snippets(doc_sentences, top[i].doc_id, query_tokens)])

\* lines 296-306: one result per document of scored[:10]; snippets[i] is what
\* _best_snippets returned for the i-th of them
Results(docs, doc_sentences, top, snippets) ==
  List([i \in 1..Len(top) |->
          [doc_id |-> top[i].doc_id,
           title |-> TitleOf(docs, top[i].doc_id),
           score |-> top[i].score,
           snippets |-> IF snippets[i] # <<>> THEN snippets[i]
                        ELSE Take(Get(doc_sentences, top[i].doc_id), 1)]])

\* lines 311-316: the response, with the locals it was built from and the
\* stages generate went through
Respond(docs, doc_sentences, query, query_tokens, scored, snippets, passes) ==
  [response |-> [status |-> "ok",
                 query |-> query,
                 results |-> Results(docs, doc_sentences, Take(scored, MAX_RESULTS), snippets),
                 summary |-> SummaryText(passes.collected),
                 doc_count |-> Len(docs)],
   locals |-> [query_tokens |-> query_tokens,
               scored |-> scored,
               snippets |-> snippets,
               pass1 |-> passes.pass1,
               pass2 |-> passes.pass2,
               pass3 |-> passes.pass3,
               collected |-> passes.collected],
   steps |-> <<"check_docs", "check_query", "tokenize", "score", "sort",
               "results", "summary">>]

\* lines 296-308: the snippets of scored[:10] and the summary over all of scored
Assemble(docs, doc_sentences, query, query_tokens, scored) ==
  Respond(docs, doc_sentences, query, query_tokens, scored,
          Snippets(doc_sentences, Take(scored, MAX_RESULTS), query_tokens),
          SummaryPasses(doc_sentences, scored, query_tokens))

\* lines 289-295: score every document, keep the positive scores, sort
Search(docs, doc_sentences, query, query_tokens) ==
  Assemble(docs, doc_sentences, query, query_tokens,
           SortScored(Scored(docs, query_tokens)))

\* lines 285-287: an empty query raises HTTP 400, any other is tokenized
Validate(docs, doc_sentences, query) ==
  IF query = <<>>
    THEN [response |-> [status |-> "invalid_input"],
          locals |-> <<>>,
          steps |-> <<"check_docs", "check_query">>]
    ELSE Search(docs, doc_sentences, query, _tokenize(query))

\* a variant of Query that does not strip
Query_unstripped(raw) == raw

\* query = (req.query or "").strip()
Query(raw) == strip(raw)

\* what generate leaves behind for the request raw: the response (or the
\* error raised), its locals at that point, and the stages it went through;
\* an empty corpus raises HTTP 503 before anything else
Handle(docs, doc_sentences, raw) ==
  IF docs = <<>>
    THEN [response |-> [status |-> "unavailable"],
          locals |-> <<>>,
          steps |-> <<"check_docs">>]
    ELSE Validate(docs, doc_sentences, Query(raw))

----------------------------------------------------------------------------
(* The directories and the queries of the model *)

\* the stem of the i-th file of a directory: note_a, note_b, ... (sorted)
Stem(i) == <<"n", "o", "t", "e", "_", LowerChars[i]>>

\* file contents
EmptyFile == <<>>
BlankFile == <<" ", "\n">>
OneSentence == <<"A", "a", " ", "b", "b", ".", " ", "c", "c">>
TwiceTheSame == <<"A", "a", ".", " ", "A", "a", ".", "\n">>
TwoOthers == <<"B", "b", " ", "c", "c", ".", " ", "D", "d", ".">>
FourHits ==
  <<"A", "a", " ", "c", "c", "?", " ", "A", "a", "!", " ", "A", "a", " ", "b", "b",
    " ", "a", "a", ".", " ", "7", " ", "a", "a", ".">>
NoTokens == <<"?", "!">>

FileTexts ==
  {EmptyFile, BlankFile, OneSentence, TwiceTheSame, TwoOthers, FourHits, NoTokens}
MatchingTexts == <<OneSentence, TwiceTheSame, FourHits>>

SeqsUpTo(S, n) == UNION {[1..k -> S] : k \in 0..n}

\* a directory lists its files in sorted order
Directories ==
  {[i \in 1..Len(ts) |-> [stem |-> Stem(i), text |-> ts[i]]] :
     ts \in SeqsUpTo(FileTexts, MaxFiles)}
  \cup
  {[i \in 1..n |-> [stem |-> Stem(i),
                    text |-> MatchingTexts[((i + o) % Len(MatchingTexts)) + 1]]] :
     n \in (MAX_RESULTS + 1)..MaxManyFiles, o \in 1..Len(MatchingTexts)}

\* the queries: a word that occurs in the files, asked up to MaxQueryWords
\* times in one query, and queries that are blank, padded, without a token, of
\* two distinct words, and for the embedded corpus
Repeated(word, k) == join(<<" ">>, [i \in 1..k |-> word])
Queries ==
  {Repeated(<<"a", "a">>, k) : k \in 0..MaxQueryWords}
  \cup
  { <<" ", "\t">>,
    <<" ", "a", "a", "\n">>,
    <<"?">>,
    <<"a", "a", " ", "?">>,
    <<"B", "b", " ", "c", "c">>,
    <<"d", "u", "t", "y", " ", "o", "f", " ", "c", "a", "r", "e">> }

\* the query whose first response is kept, to compare its later responses with
Watched == <<"a", "a">>

----------------------------------------------------------------------------
(* The state machine *)

Init ==
  /\ \E dir \in Directories :
       /\ DOCS = _load_docs(dir)
       /\ DOC_SENTENCES = SentencesOf(DOCS)
  /\ request = <<>>
  /\ response = [status |-> "none"]
  /\ locals = <<>>
  /\ steps = <<>>
  /\ first = [asked |-> FALSE]

\* a variant of generate that removes the sentences it put in the summary
\* from the sentence lists
generate_consuming(raw) ==
  \E out \in {Handle(DOCS, DOC_SENTENCES, raw)} :
    /\ response.status = "none"
    /\ request' = raw
    /\ response' = out.response
    /\ locals' = out.locals
    /\ steps' = out.steps
    /\ first' = IF ~first.asked /\ raw = Watched
                  THEN [asked |-> TRUE, response |-> out.response]
                  ELSE first
    /\ DOC_SENTENCES' =
         List([i \in 1..Len(DOC_SENTENCES) |->
                 [doc_id |-> DOC_SENTENCES[i].doc_id,
                  sentences |->
                    SelectSeq(DOC_SENTENCES[i].sentences,
                              LAMBDA s : out.locals = <<>> \/ ~In(s, out.locals.collected))]])
    /\ UNCHANGED DOCS

\* POST /generate with the query raw: the handler runs from entry to return
generate(raw) ==
  \E out \in {Handle(DOCS, DOC_SENTENCES, raw)} :
    /\ response.status = "none"
    /\ request' = raw
    /\ response' = out.response
    /\ locals' = out.locals
    /\ steps' = out.steps
    /\ first' = IF ~first.asked /\ raw = Watched
                  THEN [asked |-> TRUE, response |-> out.response]
                  ELSE first
    /\ UNCHANGED <<DOCS, DOC_SENTENCES>>

\* the response (or the error) goes out and the handler's locals are gone
reply ==
  /\ response.status # "none"
  /\ request' = <<>>
  /\ response' = [status |-> "none"]
  /\ locals' = <<>>
  /\ steps' = <<>>
  /\ UNCHANGED <<DOCS, DOC_SENTENCES, first>>

Next ==
  \/ \E raw \in Queries : generate(raw)
  \/ reply

Spec == Init /\ [][Next]_vars

----------------------------------------------------------------------------
(* Properties of the request pipeline *)

\* the last request was accepted and answered
Answered == response.status = "ok"

\* the text has no character other than whitespace
Blank(raw) == \A i \in 1..Len(raw) : raw[i] \in Whitespace

\* no sentence occurs twice in the list
NoRepeat(sentences) ==
  \A i, j \in 1..Len(sentences) : sentences[i] = sentences[j] => i = j

\* the sentences of document doc_id, as a set
SentenceSet(doc_id) ==
  LET sentences == Get(DOC_SENTENCES, doc_id)
  IN  {sentences[k] : k \in 1..Len(sentences)}

\* the number of sentences held by the documents d..Len(DOC_SENTENCES)
RECURSIVE SentencesFrom(_)
SentencesFrom(d) ==
  IF d > Len(DOC_SENTENCES) THEN 0
  ELSE Len(DOC_SENTENCES[d].sentences) + SentencesFrom(d + 1)

\* the occurrences of the query tokens qt in the tokens toks, summed over qt
Occurrences(qt, toks) ==
  Cardinality({p \in (1..Len(qt)) \X (1..Len(toks)) : toks[p[2]] = qt[p[1]]})

DutyOfCare == <<"d", "u", "t", "y", " ", "o", "f", " ", "c", "a", "r", "e">>
DutySentence ==
  <<"D", "u", "t", "y", " ", "o", "f", " ", "c", "a", "r", "e", " ", "e", "s", "t",
    "a", "b", "l", "i", "s", "h", "e", "s", " ", "a", " ", "l", "e", "g", "a", "l",
    " ", "o", "b", "l", "i", "g", "a", "t", "i", "o", "n", " ", "t", "o", " ", "e",
    "x", "e", "r", "c", "i", "s", "e", " ", "r", "e", "a", "s", "o", "n", "a", "b",
    "l", "e", " ", "c", "a", "r", "e", " ", "t", "o", "w", "a", "r", "d", "s", " ",
    "o", "t", "h", "e", "r", "s", ".">>
NegligenceSentence ==
  <<"N", "e", "g", "l", "i", "g", "e", "n", "c", "e", " ", "i", "s", " ", "a", " ",
    "k", "e", "y", " ", "c", "o", "n", "c", "e", "p", "t", " ", "r", "e", "q", "u",
    "i", "r", "i", "n", "g", " ", "f", "o", "u", "r", " ", "e", "s", "s", "e", "n",
    "t", "i", "a", "l", " ", "e", "l", "e", "m", "e", "n", "t", "s", ":", " ", "d",
    "u", "t", "y", " ", "o", "f", " ", "c", "a", "r", "e", ",", " ", "b", "r", "e",
    "a", "c", "h", " ", "o", "f", " ", "t", "h", "a", "t", " ", "d", "u", "t", "y",
    ",", " ", "c", "a", "u", "s", "a", "t", "i", "o", "n", ",", " ", "a", "n", "d",
    " ", "d", "a", "m", "a", "g", "e", "s", ".">>

(* C1: the results of an accepted request are the first 10 entries of the   *)
(* ranking of the documents whose score (occurrences of the query tokens    *)
(* in the document's tokens, over the number of document tokens) is above   *)
(* 0, by score descending and, for equal scores, in corpus order; so there  *)
(* are at most 10 results, in non-increasing score order, none of score 0.  *)
C1_Ranking ==
  Answered =>
    LET qt == locals.query_tokens
        results == response.results
        num == List([i \in 1..Len(DOCS) |-> Occurrences(qt, _tokenize(DOCS[i].text))])
        den == List([i \in 1..Len(DOCS) |-> Len(_tokenize(DOCS[i].text))])
        positive == {i \in 1..Len(DOCS) : num[i] > 0}
        before(i, j) == \/ num[i] * den[j] > num[j] * den[i]
                        \/ num[i] * den[j] = num[j] * den[i] /\ i < j
        rank(i) == 1 + Cardinality({j \in positive : before(j, i)})
    IN  /\ Len(results) = IF Cardinality(positive) < 10 THEN Cardinality(positive) ELSE 10
        /\ \A i \in positive :
             rank(i) <= 10 =>
               /\ results[rank(i)].doc_id = DOCS[i].doc_id
               /\ results[rank(i)].score.num * den[i] = num[i] * results[rank(i)].score.den
        /\ \A k \in 1..(Len(results) - 1) :
             ~ScoreGt(results[k + 1].score, results[k].score)
        /\ \A k \in 1..Len(results) : results[k].score.num > 0

\* C1: more than 10 documents score above 0, the 10 results hold both equal
\* and different scores
C1_Witness ==
  /\ Answered
  /\ Len(locals.scored) > 10
  /\ Len(response.results) = 10
  /\ \E k \in 1..9 : response.results[k].score = response.results[k + 1].score
  /\ \E k \in 1..9 : ScoreGt(response.results[k].score, response.results[k + 1].score)

(* C2 as claimed: for the query "duty of care" on the six embedded          *)
(* documents the first result is doc1 and its first snippet is the          *)
(* sentence "Duty of care establishes ... towards others."                  *)
C2_DutySentenceFirst ==
  (Answered /\ DOCS = FallbackDocs /\ request = DutyOfCare) =>
    /\ response.results[1].doc_id = <<"d", "o", "c", "1">>
    /\ response.results[1].snippets[1] = DutySentence

(* C2 amended: for the query "duty of care" on the six embedded documents   *)
(* the first result is doc1; its first snippet is the sentence "Negligence  *)
(* is a key concept ... and damages." and the sentence "Duty of care        *)
(* establishes ... towards others." is its second snippet.                  *)
C2_NegligenceSentenceFirst ==
  (Answered /\ DOCS = FallbackDocs /\ request = DutyOfCare) =>
    /\ response.results[1].doc_id = <<"d", "o", "c", "1">>
    /\ response.results[1].snippets[1] = NegligenceSentence
    /\ response.results[1].snippets[2] = DutySentence

\* C2: "duty of care" was answered on the six embedded documents
C2_Witness ==
  /\ Answered
  /\ DOCS = FallbackDocs
  /\ request = DutyOfCare
  /\ Len(response.results) = 6

(* C3: the list of sentences that _make_summary joins holds no sentence     *)
(* twice, whichever pass produced it.                                       *)
C3_NoRepeatedSentence == Answered => NoRepeat(locals.collected)

(* C4: the summary of an accepted request has at least min(2, number of     *)
(* sentences of the whole corpus) sentences.                                *)
C4_SummaryFloor ==
  Answered =>
    Len(locals.collected) >= (IF SentencesFrom(1) < 2 THEN SentencesFrom(1) ELSE 2)

(* C5 as claimed: the summary never has more than max(2, number of distinct *)
(* query tokens) sentences.                                                 *)
C5_DistinctTokenTarget ==
  Answered =>
    LET qt == locals.query_tokens
        distinct == Cardinality({qt[i] : i \in 1..Len(qt)})
    IN  Len(locals.collected) <= (IF distinct > 2 THEN distinct ELSE 2)

(* C5 amended: the summary's target length is max(2, number of query        *)
(* tokens, a repeated token counted each time it occurs): no pass holds     *)
(* more sentences than that, and the summary never has more.                *)
C5_TokenCountTarget ==
  Answered =>
    LET qt == locals.query_tokens
        target == IF Len(qt) > 2 THEN Len(qt) ELSE 2
    IN  /\ Len(locals.pass1) <= target
        /\ Len(locals.pass2) <= target
        /\ Len(locals.pass3) <= target
        /\ Len(locals.collected) <= target

\* C5: a query that repeats one token three times got a summary of three sentences
C5_Witness ==
  /\ Answered
  /\ Len(locals.query_tokens) = 3
  /\ Cardinality({locals.query_tokens[i] : i \in 1..3}) = 1
  /\ locals.scored # <<>>
  /\ Len(locals.collected) = 3

(* C6: a query that is not blank but has no ASCII letter or digit gets zero *)
(* results; the first three passes collect nothing, and the summary is the  *)
(* first 2 sentences (fewer if it has fewer) of the first document in       *)
(* corpus order that has a sentence, or the literal "No relevant summary    *)
(* could be generated." when no document has one.                           *)
C6_NoTokenQuery ==
  (/\ response.status # "none"
   /\ DOCS # <<>>
   /\ ~Blank(request)
   /\ \A i \in 1..Len(request) : request[i] \notin Alnum) =>
    /\ Answered
    /\ response.results = <<>>
    /\ locals.pass1 = <<>> /\ locals.pass2 = <<>> /\ locals.pass3 = <<>>
    /\ LET with == {d \in 1..Len(DOC_SENTENCES) : DOC_SENTENCES[d].sentences # <<>>}
       IN  IF with = {} THEN response.summary = NoSummary
           ELSE LET d == CHOOSE d \in with : \A e \in with : d <= e
                    s == DOC_SENTENCES[d].sentences
                IN  response.summary =
                      IF Len(s) = 1 THEN s[1] ELSE s[1] \o <<" ">> \o s[2]

\* C6: such a query was answered on a corpus whose first document has one
\* sentence and whose second has two
C6_Witness ==
  /\ Answered
  /\ ~Blank(request)
  /\ \A i \in 1..Len(request) : request[i] \notin Alnum
  /\ Len(DOCS) = 2
  /\ Len(DOC_SENTENCES[1].sentences) = 1
  /\ Len(DOC_SENTENCES[2].sentences) = 2
  /\ response.summary = DOC_SENTENCES[1].sentences[1]

(* C7: a request whose query is empty or blank is rejected as invalid input *)
(* right after the corpus check, before tokenizing or scoring, and leaves   *)
(* no response content; on an empty corpus every request is rejected as     *)
(* unavailable instead, the corpus check being the first.                   *)
C7_Rejections ==
  /\ response.status # "none" =>
       /\ (DOCS # <<>> /\ Blank(request)) =>
            /\ response = [status |-> "invalid_input"]
            /\ steps = <<"check_docs", "check_query">>
            /\ locals = <<>>
       /\ (DOCS # <<>> /\ ~Blank(request)) => Answered
       /\ DOCS = <<>> => response = [status |-> "unavailable"]
  /\ \A raw \in Queries :
       LET out == Handle(<<>>, <<>>, raw)
       IN  /\ out.response = [status |-> "unavailable"]
           /\ out.steps = <<"check_docs">>
           /\ out.locals = <<>>

\* C7: a query of whitespace alone was rejected
C7_Witness ==
  /\ response.status = "invalid_input"
  /\ request # <<>>
  /\ Blank(request)

C9_Snippets ==
  Answered =>
    \A i \in 1..Len(response.results) :
      LET r == response.results[i]
      IN  /\ Len(r.snippets) \in 1..3
          /\ locals.snippets[i] # <<>>
          /\ r.snippets = locals.snippets[i]
          /\ \A k \in 1..Len(r.snippets) :
               /\ r.snippets[k] \in SentenceSet(r.doc_id)
               /\ \E q \in 1..Len(locals.query_tokens) :
                    Count(_tokenize(r.snippets[k]), locals.query_tokens[q]) > 0

\* C9: a document with four sentences that hold a query token got 3 snippets
C9_Witness ==
  /\ Answered
  /\ \E i \in 1..Len(response.results) :
       /\ Len(response.results[i].snippets) = 3
       /\ Cardinality({s \in SentenceSet(response.results[i].doc_id) :
                         \E q \in 1..Len(locals.query_tokens) :
                           Count(_tokenize(s), locals.query_tokens[q]) > 0}) > 3

(* C10: when the third pass is entered (fewer than 2 sentences collected,   *)
(* some document scored), the second pass has collected every sentence of   *)
(* every scored document, and the third pass adds nothing.                  *)
C10_ThirdPassIdle ==
  (Answered /\ Len(locals.pass2) < MIN_SUMMARY_SENTENCES /\ locals.scored # <<>>) =>
    /\ locals.pass3 = locals.pass2
    /\ \A d \in 1..Len(locals.scored) :
         \A s \in SentenceSet(locals.scored[d].doc_id) : In(s, locals.pass2)

\* C10: the third pass was entered with one sentence collected
C10_Witness ==
  /\ Answered
  /\ locals.scored # <<>>
  /\ Len(locals.pass2) = 1
  /\ Len(locals.collected) = 1

====
